---- MODULE Spec2Model ----
(***************************************************************************)
(* A model of src/main.cpp: the three fallible stages LoadConfig,          *)
(* ValidateData and ProcessData, std::expected's and_then that chains      *)
(* them, and handle_pipeline_result, which visits the terminal error.      *)
(*                                                                         *)
(* A std::string is a sequence of one-character strings, so that find,     *)
(* length and operator+ are computed and not assumed.  Literals that the   *)
(* code only stores and prints (error payloads) are TLA+ strings.          *)
(***************************************************************************)
EXTENDS Integers, Sequences, FiniteSets, TLC

\* ------------------------------------------------------------------ bounds

\* A file's content is a concatenation of at most MaxPieces pieces.
MaxPieces == 2

\* ------------------------------------------------------- input universes

\* The paths a run may name.
Paths == {"a.txt", "b.txt"}

\* "malformed": the literal LoadConfig searches for.
MalformedSentinel == <<"m","a","l","f","o","r","m","e","d">>

\* "invalid_field": the literal ValidateData searches for.
InvalidFieldSentinel == <<"i","n","v","a","l","i","d","_","f","i","e","l","d">>

\* "Validated: ": the literal ValidateData puts in front of the config data.
ValidatedPrefix == <<"V","a","l","i","d","a","t","e","d",":"," ">>

\* "valid_data_content": what main writes for scenario 1.
ValidDataContent ==
    <<"v","a","l","i","d","_","d","a","t","a","_","c","o","n","t","e","n","t">>

\* "short": what main writes for scenario 5.
ShortContent == <<"s","h","o","r","t">>

\* The pieces file contents are built from.
Pieces == {MalformedSentinel, InvalidFieldSentinel, ValidDataContent, ShortContent}

RECURSIVE TextsUpTo(_)
\* Every concatenation of at most n pieces (the empty string included).
TextsUpTo(n) ==
    IF n = 0 THEN {<< >>}
    ELSE LET T == TextsUpTo(n - 1) IN T \cup {t \o p : t \in T, p \in Pieces}

\* The strings the model draws file contents and stage arguments from.
Contents == TextsUpTo(MaxPieces)

\* The state of a path that names no file (std::ifstream::is_open() is false).
NoFile == [exists |-> FALSE, content |-> << >>]

\* The state of a path that names a file holding content c.
File(c) == [exists |-> TRUE, content |-> c]

\* Every state a path can be in.
FileStates == {NoFile} \cup {File(c) : c \in Contents}

\* ------------------------------------------------------------ std::string

\* std::string::npos, the value find returns when there is no match.
npos == -1

RECURSIVE FindFrom(_, _, _)
\* The first 0-based position >= i at which t occurs in s, or npos.
FindFrom(s, t, i) ==
    IF i + Len(t) > Len(s) THEN npos
    ELSE IF SubSeq(s, i + 1, i + Len(t)) = t THEN i
    ELSE FindFrom(s, t, i + 1)

\* s.find(t)
find(s, t) == FindFrom(s, t, 0)

\* The largest int.
INT_MAX == 2147483647

\* static_cast<int>(n) of a size_t n.
static_cast_int(n) == IF n <= INT_MAX THEN n ELSE n - 2 * (INT_MAX + 1)

\* ------------------------------------------------- errors, values, results

ConfigReadError(filename) == [kind |-> "ConfigReadError", filename |-> filename]

ConfigParseError(line_content, line_number) ==
    [kind |-> "ConfigParseError", line_content |-> line_content,
     line_number |-> line_number]

ValidationError(field_name, invalid_value) ==
    [kind |-> "ValidationError", field_name |-> field_name,
     invalid_value |-> invalid_value]

ProcessingError(task_name, details) ==
    [kind |-> "ProcessingError", task_name |-> task_name, details |-> details]

\* The alternatives of the variant PipelineError.
ErrorKinds == {"ConfigReadError", "ConfigParseError", "ValidationError", "ProcessingError"}

Config(data) == [type |-> "Config", data |-> data]

ValidatedData(processed_data) ==
    [type |-> "ValidatedData", processed_data |-> processed_data]

Result(final_result_code) ==
    [type |-> "Result", final_result_code |-> final_result_code]

\* The member of a std::expected that is not engaged.
NoValue == [type |-> "none"]
NoError == [kind |-> "none"]

\* std::expected<T, PipelineError> holding a value.
Expected(v) == [ok |-> TRUE, value |-> v, error |-> NoError]

\* std::expected<T, PipelineError> holding std::unexpected(e).
Unexpected(e) == [ok |-> FALSE, value |-> NoValue, error |-> e]

\* A temporary of the chain that has not been computed yet.
NoResult == [ok |-> FALSE, value |-> NoValue, error |-> NoError]

\* ------------------------------------------------------------------ state

VARIABLES
    fs,      \* the file system: path -> File(content) or NoFile
    pc,      \* where the driver is: idle, chain1, chain2, terminal, dispatched
    path,    \* the filename of the current run
    r0,      \* what LoadConfig(path) returned
    r1,      \* what the first and_then returned
    r2,      \* what the second and_then returned: the terminal result
    trace,   \* the functions invoked in the current run, in order
    diag,    \* what handle_pipeline_result reported
    prev,    \* the previous run, kept while the file system is unchanged
    uOp,     \* stage harness: the stage called directly
    uArg,    \* stage harness: its argument
    uRes,    \* stage harness: what it returned
    raised,  \* stage harness: the <<stage, error kind>> pairs seen so far
    handles, \* the paths an open std::ifstream is held on
    scn,     \* main: the scenario it is in (0: this is not a run of main)
    exitStatus, \* main: "running", "exit 0" or "abort"
    taxonomy \* the alternatives of PipelineError in the build

vars == <<fs, pc, path, r0, r1, r2, trace, diag, prev, uOp, uArg, uRes, raised,
          handles, scn, exitStatus, taxonomy>>

\* What only main and a rebuild of the program change.
restVars == <<scn, exitStatus, taxonomy>>

harnessVars == <<uOp, uArg, uRes, raised>>

\* No run has named a path yet.
NoPath == "NoPath"

\* handle_pipeline_result has not reported in this run.
NoDiag == [arm |-> "none", fields |-> << >>]

\* There is no previous run on the file system as it is now.
NoRun == [path |-> NoPath, file |-> NoFile, result |-> NoResult]

\* The harness has called nothing yet.
NoArg == [path |-> NoPath, file |-> NoFile, text |-> << >>]

\* ----------------------------------------------------------- the stages

\* The std::ifstream of LoadConfig that leaks its handle on the parse-error
\* return (what a raw handle closed only on the success path would do).
LoadConfigScope_LeakOnParseError(filename, file) ==
    [acquired |-> IF file.exists THEN {filename} ELSE {},
     released |-> IF file.exists
                     /\ ~(file.content = << >>
                            \/ find(file.content, MalformedSentinel) # npos)
                  THEN {filename} ELSE {}]

\* The local std::ifstream file of LoadConfig: the handle its constructor
\* acquires (when the open succeeds) and the handle its destructor releases
\* at whichever return statement the function leaves through.
LoadConfigScope(filename, file) ==
    [acquired |-> IF file.exists THEN {filename} ELSE {},
     released |-> {filename}]

\* The handles held once a function with scope sc has returned.
HandlesAfter(held, sc) == (held \cup sc.acquired) \ sc.released

\* LoadConfig without the is_open test: a stream that failed to open reads as
\* empty, and the empty content is reported as a parse error.
LoadConfig_NoOpenTest(filename, file) ==
    LET content == IF file.exists THEN file.content ELSE << >> IN
    IF content = << >> \/ find(content, MalformedSentinel) # npos
    THEN Unexpected(ConfigParseError("malformed", 1))
    ELSE Expected(Config(content))

\* LoadConfig reporting the line position of the sentinel instead of 1.
LoadConfig_RealPosition(filename, file) ==
    IF ~file.exists
    THEN Unexpected(ConfigReadError(filename))
    ELSE LET content == file.content IN
         IF content = << >>
         THEN Unexpected(ConfigParseError("malformed", 1))
         ELSE IF find(content, MalformedSentinel) # npos
         THEN Unexpected(ConfigParseError("malformed",
                                          find(content, MalformedSentinel) + 1))
         ELSE Expected(Config(content))

\* LoadConfig that looks for the validation sentinel before the parse
\* sentinel and reports it itself.
LoadConfig_ValidatesFirst(filename, file) ==
    IF ~file.exists
    THEN Unexpected(ConfigReadError(filename))
    ELSE LET content == file.content IN
         IF find(content, InvalidFieldSentinel) # npos
         THEN Unexpected(ValidationError("invalid_field", "contains disallowed value"))
         ELSE IF content = << >> \/ find(content, MalformedSentinel) # npos
              THEN Unexpected(ConfigParseError("malformed", 1))
              ELSE Expected(Config(content))

\* LoadConfig(filename), where file is the state of the path filename.
LoadConfig(filename, file) ==
    IF ~file.exists
    THEN Unexpected(ConfigReadError(filename))
    ELSE LET content == file.content IN
         IF content = << >> \/ find(content, MalformedSentinel) # npos
         THEN Unexpected(ConfigParseError("malformed", 1))
         ELSE Expected(Config(content))

\* ValidateData that forgets the "Validated: " prefix.
ValidateData_NoPrefix(config) ==
    IF find(config.data, InvalidFieldSentinel) # npos
    THEN Unexpected(ValidationError("invalid_field", "contains disallowed value"))
    ELSE Expected(ValidatedData(config.data))

\* ValidateData that looks for the sentinel at the start of the data only
\* (find(...) == 0 in place of find(...) != npos).
ValidateData_AtStartOnly(config) ==
    IF find(config.data, InvalidFieldSentinel) = 0
    THEN Unexpected(ValidationError("invalid_field", "contains disallowed value"))
    ELSE Expected(ValidatedData(ValidatedPrefix \o config.data))

\* ValidateData(config)
ValidateData(config) ==
    IF find(config.data, InvalidFieldSentinel) # npos
    THEN Unexpected(ValidationError("invalid_field", "contains disallowed value"))
    ELSE Expected(ValidatedData(ValidatedPrefix \o config.data))

\* A threshold above the length of the prefix, under which an empty payload
\* would be refused.
MinProcessLength_AbovePrefix == Len(ValidatedPrefix) + 1

\* A threshold just above the length of "Validated: short", under which the
\* content "short" would be refused.
MinProcessLength_AboveShort == Len(ValidatedPrefix \o ShortContent) + 1

\* The length below which ProcessData refuses its input.
MinProcessLength == 10

\* ProcessData that also refuses a text of exactly the threshold length.
ProcessData_Inclusive(data) ==
    IF Len(data.processed_data) <= MinProcessLength
    THEN Unexpected(ProcessingError("Data Processing", "Input data too short for task"))
    ELSE Expected(Result(static_cast_int(Len(data.processed_data))))

\* ProcessData that reports its failure under another stage's error kind.
ProcessData_WrongKind(data) ==
    IF Len(data.processed_data) < MinProcessLength
    THEN Unexpected(ValidationError("Data Processing", "Input data too short for task"))
    ELSE Expected(Result(static_cast_int(Len(data.processed_data))))

\* ProcessData that keeps a count across runs (a function-local static) and
\* adds it to the code.
ProcessData_Static(data) ==
    IF Len(data.processed_data) < MinProcessLength
    THEN Unexpected(ProcessingError("Data Processing", "Input data too short for task"))
    ELSE Expected(Result(static_cast_int(Len(data.processed_data))
                         + (IF prev.path = NoPath THEN 0 ELSE 1)))

\* ProcessData(data)
ProcessData(data) ==
    IF Len(data.processed_data) < MinProcessLength
    THEN Unexpected(ProcessingError("Data Processing", "Input data too short for task"))
    ELSE Expected(Result(static_cast_int(Len(data.processed_data))))

\* The two lambdas handed to and_then, by the name of the stage each calls.
Invoke(f, v) ==
    CASE f = "ValidateData" -> ValidateData(v)
      [] f = "ProcessData" -> ProcessData(v)

\* and_then that calls f whatever r holds (on a default value when r is a
\* failure) and keeps the error.
and_then_Eager(r, f) ==
    [invoked |-> <<f>>,
     result |-> IF r.ok THEN Invoke(f, r.value) ELSE Unexpected(r.error)]

\* and_then that wraps the error it passes on in an error of its own.
and_then_Wrapping(r, f) ==
    IF r.ok
    THEN [invoked |-> <<f>>, result |-> Invoke(f, r.value)]
    ELSE [invoked |-> << >>,
          result |-> Unexpected(ProcessingError(f, "upstream stage failed"))]

\* and_then that calls f a second time when its first call fails (a retry).
and_then_Retry(r, f) ==
    IF r.ok
    THEN IF Invoke(f, r.value).ok
         THEN [invoked |-> <<f>>, result |-> Invoke(f, r.value)]
         ELSE [invoked |-> <<f, f>>, result |-> Invoke(f, r.value)]
    ELSE [invoked |-> << >>, result |-> Unexpected(r.error)]

\* r.and_then(f): the result, and the functions it invoked to get it.
and_then(r, f) ==
    IF r.ok
    THEN [invoked |-> <<f>>, result |-> Invoke(f, r.value)]
    ELSE [invoked |-> << >>, result |-> Unexpected(r.error)]

\* ------------------------------------------------------- the dispatcher

\* std::visit in which the generic lambda wins overload resolution for every
\* alternative (what a non-const variant argument would give).
visit_GenericWins(e) == [arm |-> "fallback", fields |-> << >>]

\* std::visit(Overloaded{...}, e): the lambda overload resolution selects for
\* the alternative e holds, and the payload fields it prints.
visit(e) ==
    CASE e.kind = "ConfigReadError" ->
           [arm |-> "ConfigReadError", fields |-> <<e.filename>>]
      [] e.kind = "ConfigParseError" ->
           [arm |-> "ConfigParseError", fields |-> <<e.line_number, e.line_content>>]
      [] e.kind = "ValidationError" ->
           [arm |-> "ValidationError", fields |-> <<e.field_name, e.invalid_value>>]
      [] e.kind = "ProcessingError" ->
           [arm |-> "ProcessingError", fields |-> <<e.task_name, e.details>>]
      [] OTHER -> [arm |-> "fallback", fields |-> << >>]

\* handle_pipeline_result(final_result): the branch taken and what it prints.
handle_pipeline_result(final_result) ==
    IF final_result.ok
    THEN [arm |-> "success", fields |-> <<final_result.value.final_result_code>>]
    ELSE visit(final_result.error)

\* ------------------------------------------------------------ the driver

\* Between runs: the driver may touch the file system or start a run.
BetweenRuns == pc \in {"idle", "dispatched"}

\* std::ofstream(p) << c: p now names a file holding c.
WriteFile(p, c) ==
    /\ BetweenRuns
    /\ fs' = [fs EXCEPT ![p] = File(c)]
    /\ pc' = "idle"
    /\ path' = NoPath
    /\ r0' = NoResult /\ r1' = NoResult /\ r2' = NoResult
    /\ trace' = << >>
    /\ diag' = NoDiag
    /\ prev' = NoRun
    /\ UNCHANGED handles
    /\ UNCHANGED <<harnessVars, restVars>>

\* std::remove(p) of an existing file.
RemoveFile(p) ==
    /\ BetweenRuns
    /\ fs[p].exists
    /\ fs' = [fs EXCEPT ![p] = NoFile]
    /\ pc' = "idle"
    /\ path' = NoPath
    /\ r0' = NoResult /\ r1' = NoResult /\ r2' = NoResult
    /\ trace' = << >>
    /\ diag' = NoDiag
    /\ prev' = NoRun
    /\ UNCHANGED handles
    /\ UNCHANGED <<harnessVars, restVars>>

\* A run starts: LoadConfig(p).
Load(p) ==
    /\ BetweenRuns
    /\ path' = p
    /\ r0' = LoadConfig(p, fs[p])
    /\ r1' = NoResult /\ r2' = NoResult
    /\ trace' = <<"LoadConfig">>
    /\ diag' = NoDiag
    /\ handles' = HandlesAfter(handles, LoadConfigScope(p, fs[p]))
    /\ pc' = "chain1"
    /\ UNCHANGED <<fs, prev>>
    /\ UNCHANGED <<harnessVars, restVars>>

\* .and_then([](const Config& cfg) { return ValidateData(cfg); })
AndThenValidate ==
    /\ pc = "chain1"
    /\ LET a == and_then(r0, "ValidateData") IN
         /\ r1' = a.result
         /\ trace' = trace \o a.invoked
    /\ pc' = "chain2"
    /\ UNCHANGED <<fs, path, r0, r2, diag, prev, handles>>
    /\ UNCHANGED <<harnessVars, restVars>>

\* .and_then([](const ValidatedData& vd) { return ProcessData(vd); })
AndThenProcess ==
    /\ pc = "chain2"
    /\ LET a == and_then(r1, "ProcessData") IN
         /\ r2' = a.result
         /\ trace' = trace \o a.invoked
    /\ pc' = "terminal"
    /\ UNCHANGED <<fs, path, r0, r1, diag, prev, handles>>
    /\ UNCHANGED <<harnessVars, restVars>>

\* handle_pipeline_result(r2); the run is over.
Dispatch ==
    /\ pc = "terminal"
    /\ diag' = handle_pipeline_result(r2)
    /\ trace' = Append(trace, "handle_pipeline_result")
    /\ prev' = [path |-> path, file |-> fs[path], result |-> r2]
    /\ pc' = "dispatched"
    /\ UNCHANGED <<fs, path, r0, r1, r2, handles>>
    /\ UNCHANGED <<harnessVars, restVars>>

Init ==
    /\ fs = [p \in Paths |-> NoFile]
    /\ pc = "idle"
    /\ path = NoPath
    /\ r0 = NoResult /\ r1 = NoResult /\ r2 = NoResult
    /\ trace = << >>
    /\ diag = NoDiag
    /\ prev = NoRun
    /\ uOp = "none"
    /\ uArg = NoArg
    /\ uRes = NoResult
    /\ raised = {}
    /\ handles = {}
    /\ scn = 0
    /\ exitStatus = "running"
    /\ taxonomy = ErrorKinds

Next ==
    \/ \E p \in Paths, c \in Contents : WriteFile(p, c)
    \/ \E p \in Paths : RemoveFile(p)
    \/ \E p \in Paths : Load(p)
    \/ AndThenValidate
    \/ AndThenProcess
    \/ Dispatch

Spec == Init /\ [][Next]_vars

\* ------------------------------------------------------ the stage harness

\* The <<stage, kind>> pair a failed result adds to raised.
Raise(stage, r) == IF r.ok THEN {} ELSE {<<stage, r.error.kind>>}

\* The run variables the harness leaves alone (it sets up fs for each call).
runVars == <<pc, path, r0, r1, r2, trace, diag, prev>>

\* The directory a direct call is made in: p is in state f, nothing else exists.
Fixture(p, f) == [q \in Paths |-> IF q = p THEN f ELSE NoFile]

\* LoadConfig(p) called on its own, with the path p in state f; r is what the
\* call returns.
CallLoadConfig(p, f, r) ==
    /\ fs' = Fixture(p, f)
    /\ uOp' = "LoadConfig"
    /\ uArg' = [path |-> p, file |-> f, text |-> << >>]
    /\ uRes' = r
    /\ raised' = raised \cup Raise("LoadConfig", r)
    /\ handles' = HandlesAfter(handles, LoadConfigScope(p, f))
    /\ UNCHANGED <<runVars, restVars>>

\* ValidateData(Config{t}) called on its own; r is what the call returns.
CallValidateData(t, r) ==
    /\ fs' = Fixture(NoPath, NoFile)
    /\ uOp' = "ValidateData"
    /\ uArg' = [path |-> NoPath, file |-> NoFile, text |-> t]
    /\ uRes' = r
    /\ raised' = raised \cup Raise("ValidateData", r)
    /\ UNCHANGED handles
    /\ UNCHANGED <<runVars, restVars>>

\* ProcessData(ValidatedData{t}) called on its own; r is what the call returns.
CallProcessData(t, r) ==
    /\ fs' = Fixture(NoPath, NoFile)
    /\ uOp' = "ProcessData"
    /\ uArg' = [path |-> NoPath, file |-> NoFile, text |-> t]
    /\ uRes' = r
    /\ raised' = raised \cup Raise("ProcessData", r)
    /\ UNCHANGED handles
    /\ UNCHANGED <<runVars, restVars>>

\* ValidateData(Config{t}).and_then(ProcessData), the last two stages chained:
\* v is what ValidateData returns and a what and_then makes of it.
CallValidateThenProcess(t, v, a) ==
    /\ fs' = Fixture(NoPath, NoFile)
    /\ uOp' = "ValidateThenProcess"
    /\ uArg' = [path |-> NoPath, file |-> NoFile, text |-> t]
    /\ uRes' = a.result
    /\ raised' = raised \cup Raise("ValidateData", v)
                        \cup (IF a.invoked = << >> THEN {}
                              ELSE Raise("ProcessData", a.result))
    /\ UNCHANGED handles
    /\ UNCHANGED <<runVars, restVars>>

StagesNext ==
    \/ \E p \in Paths, f \in FileStates : CallLoadConfig(p, f, LoadConfig(p, f))
    \/ \E t \in Contents : CallValidateData(t, ValidateData(Config(t)))
    \/ \E t \in Contents : CallProcessData(t, ProcessData(ValidatedData(t)))
    \/ \E t \in Contents :
         CallValidateThenProcess(t, ValidateData(Config(t)),
                                 and_then(ValidateData(Config(t)), "ProcessData"))

SpecStages == Init /\ [][StagesNext]_vars

\* ------------------------------------------------------------------ main

\* The file each scenario of main runs the pipeline on.
ScenarioFile(i) ==
    CASE i = 1 -> "valid_config.txt"
      [] i = 2 -> "non_existent_config.txt"
      [] i = 3 -> "malformed_config.txt"
      [] i = 4 -> "invalid_data_config.txt"
      [] i = 5 -> "short_data_config.txt"

\* The scenarios that write their file first (scenario 2 writes nothing).
WritingScenarios == {1, 3, 4, 5}

\* "malformed content": what main writes for scenario 3.
MalformedContent == MalformedSentinel \o <<" ","c","o","n","t","e","n","t">>

\* "valid_data\ninvalid_field": what main writes for scenario 4.
InvalidDataContent ==
    <<"v","a","l","i","d","_","d","a","t","a","\n">> \o InvalidFieldSentinel

\* What std::ofstream(ScenarioFile(i)) << ... writes in scenario i.
ScenarioContent(i) ==
    CASE i = 1 -> ValidDataContent
      [] i = 3 -> MalformedContent
      [] i = 4 -> InvalidDataContent
      [] i = 5 -> ShortContent

\* The filename of test_read_nonexisted_config_file.
TestFile == "this_file_should_not_exist.txt"

\* The last scenario of main.
LastScenario == 5

\* main is at its cleanup (the std::remove calls).
CleanupPhase == 6

\* main is in test_read_nonexisted_config_file.
TestPhase == 7

\* main is at return 0.
ReturnPhase == 8

\* Every path main names.
MainFiles == {ScenarioFile(i) : i \in 1..LastScenario} \cup {TestFile}

\* The files main writes.
WrittenFiles == {ScenarioFile(i) : i \in WritingScenarios}

\* The file the run of phase i reads.
RunFile(i) == IF i = TestPhase THEN TestFile ELSE ScenarioFile(i)

\* The three asserts of test_read_nonexisted_config_file on ret = the result
\* of call_pipeline(filename).
test_asserts(ret, filename) ==
    /\ ret.ok = FALSE
    /\ ret.error.kind = "ConfigReadError"
    /\ ret.error.filename = filename

\* The directory main starts in: the two paths it expects not to exist do not;
\* one of the files it writes may be there already, in any state.
MainInit ==
    /\ fs \in {[f \in MainFiles |-> IF f = q THEN s ELSE NoFile] :
                 q \in WrittenFiles, s \in FileStates}
    /\ pc = "idle"
    /\ path = NoPath
    /\ r0 = NoResult /\ r1 = NoResult /\ r2 = NoResult
    /\ trace = << >>
    /\ diag = NoDiag
    /\ prev = NoRun
    /\ uOp = "none"
    /\ uArg = NoArg
    /\ uRes = NoResult
    /\ raised = {}
    /\ handles = {}
    /\ scn = 1
    /\ exitStatus = "running"
    /\ taxonomy = ErrorKinds

\* std::ofstream(ScenarioFile(scn)) << ScenarioContent(scn); when the stream
\* cannot be opened (ok = FALSE) nothing is written.
MainWrite(ok) ==
    /\ exitStatus = "running"
    /\ scn \in WritingScenarios
    /\ pc = "idle"
    /\ fs' = IF ok THEN [fs EXCEPT ![ScenarioFile(scn)] = File(ScenarioContent(scn))]
                   ELSE fs
    /\ pc' = "written"
    /\ UNCHANGED <<path, r0, r1, r2, trace, diag, prev, handles>>
    /\ UNCHANGED <<harnessVars, restVars>>

\* LoadConfig(...) at the head of a scenario's chain, or of call_pipeline in
\* the test.
MainLoad ==
    /\ exitStatus = "running"
    /\ \/ scn \in WritingScenarios /\ pc = "written"
       \/ scn \in {2, TestPhase} /\ pc = "idle"
    /\ path' = RunFile(scn)
    /\ r0' = LoadConfig(RunFile(scn), fs[RunFile(scn)])
    /\ r1' = NoResult /\ r2' = NoResult
    /\ trace' = <<"LoadConfig">>
    /\ diag' = NoDiag
    /\ handles' = HandlesAfter(handles, LoadConfigScope(RunFile(scn), fs[RunFile(scn)]))
    /\ pc' = "chain1"
    /\ UNCHANGED <<fs, prev>>
    /\ UNCHANGED <<harnessVars, restVars>>

\* handle_pipeline_result(..._pipeline) at the end of a scenario.
MainDispatch ==
    /\ scn \in 1..LastScenario
    /\ pc = "terminal"
    /\ diag' = handle_pipeline_result(r2)
    /\ trace' = Append(trace, "handle_pipeline_result")
    /\ pc' = "idle"
    /\ scn' = scn + 1
    /\ UNCHANGED <<fs, path, r0, r1, r2, prev, handles, exitStatus, taxonomy>>
    /\ UNCHANGED harnessVars

\* The four std::remove calls.
MainCleanup ==
    /\ scn = CleanupPhase
    /\ pc = "idle"
    /\ fs' = [f \in MainFiles |-> IF f \in WrittenFiles THEN NoFile ELSE fs[f]]
    /\ scn' = TestPhase
    /\ UNCHANGED <<pc, path, r0, r1, r2, trace, diag, prev, handles, exitStatus, taxonomy>>
    /\ UNCHANGED harnessVars

\* The asserts of the test on what call_pipeline returned: a failed assert
\* aborts the process.
TestAsserts ==
    /\ scn = TestPhase
    /\ pc = "terminal"
    /\ IF test_asserts(r2, TestFile)
       THEN /\ scn' = ReturnPhase
            /\ pc' = "idle"
            /\ UNCHANGED exitStatus
       ELSE /\ exitStatus' = "abort"
            /\ pc' = "aborted"
            /\ UNCHANGED scn
    /\ UNCHANGED <<fs, path, r0, r1, r2, trace, diag, prev, handles, taxonomy>>
    /\ UNCHANGED harnessVars

\* return 0;
MainReturn ==
    /\ scn = ReturnPhase
    /\ exitStatus = "running"
    /\ exitStatus' = "exit 0"
    /\ UNCHANGED <<fs, pc, path, r0, r1, r2, trace, diag, prev, handles, scn, taxonomy>>
    /\ UNCHANGED harnessVars

MainNext ==
    \/ \E ok \in BOOLEAN : MainWrite(ok)
    \/ MainLoad
    \/ AndThenValidate
    \/ AndThenProcess
    \/ MainDispatch
    \/ MainCleanup
    \/ TestAsserts
    \/ MainReturn

SpecMain == MainInit /\ [][MainNext]_vars

\* main is a sequential program: while it has a next statement, it runs it.
SpecMainFair == SpecMain /\ WF_vars(MainNext)

\* ---------------------------------------------- the dispatcher's build

\* Alternatives a revision of the program may add to PipelineError; the
\* dispatcher has no lambda for them.
FutureKinds == {"TimeoutError", "NetworkError"}

\* An error of an added alternative.
FutureError(k) == [kind |-> k]

\* The alternatives the Overloaded visitor has a lambda of its own for.
SpecificArms ==
    {"ConfigReadError", "ConfigParseError", "ValidationError", "ProcessingError"}

\* The visitor's last lambda is [](auto&& arg): callable with any alternative.
GenericArm == TRUE

\* std::visit(Overloaded{...}, e) is well-formed when the visitor is callable
\* with every alternative of the variant.
VisitCompiles(T) == \A k \in T : k \in SpecificArms \/ GenericArm

\* The errors a PipelineError with the alternatives T can hold.
PipelineErrors(T) ==
    LET all == {ConfigReadError(p) : p \in Paths}
                 \cup {ConfigParseError("malformed", 1)}
                 \cup {ValidationError("invalid_field", "contains disallowed value")}
                 \cup {ProcessingError("Data Processing", "Input data too short for task")}
                 \cup {FutureError(k) : k \in FutureKinds}
    IN  {e \in all : e.kind \in T}

\* The std::expected<Result, PipelineError> values handle_pipeline_result
\* can be called with in a build whose PipelineError has the alternatives T.
PipelineResults(T) ==
    {Expected(Result(static_cast_int(Len(t)))) : t \in Contents}
        \cup {Unexpected(e) : e \in PipelineErrors(T)}

\* A revision adds the alternative k to PipelineError and leaves
\* handle_pipeline_result as it is; the build accepts it when the visit
\* compiles.
AddAlternative(k) ==
    /\ k \notin taxonomy
    /\ VisitCompiles(taxonomy \cup {k})
    /\ taxonomy' = taxonomy \cup {k}
    /\ UNCHANGED <<fs, handles, runVars, harnessVars, scn, exitStatus>>

\* handle_pipeline_result(res) called on its own; d is what it reports. The
\* arms taken so far are kept in raised.
CallHandle(res, d) ==
    /\ res \in PipelineResults(taxonomy)
    /\ uOp' = "handle_pipeline_result"
    /\ uArg' = NoArg
    /\ uRes' = res
    /\ diag' = d
    /\ raised' = raised \cup {<<"handle_pipeline_result", d.arm>>}
    /\ UNCHANGED <<fs, handles, pc, path, r0, r1, r2, trace, prev, restVars>>

TaxonomyNext ==
    \/ \E k \in FutureKinds : AddAlternative(k)
    \/ \E res \in PipelineResults(ErrorKinds \cup FutureKinds) :
         CallHandle(res, handle_pipeline_result(res))

SpecTaxonomy == Init /\ [][TaxonomyNext]_vars

\* ---------------------------------------------------- claims: vocabulary

\* t occurs somewhere in s.
HasSubstring(s, t) ==
    \E i \in 1..(Len(s) - Len(t) + 1) : SubSeq(s, i, i + Len(t) - 1) = t

\* The function f was invoked in the current run.
WasInvoked(f) == \E i \in 1..Len(trace) : trace[i] = f

\* The first and_then has returned.
AfterValidateStep == pc \in {"chain2", "terminal", "dispatched"}

\* The second and_then has returned: r2 is the terminal result.
AfterProcessStep == pc \in {"terminal", "dispatched"}

\* ---------------------------------------------------------------- C1

\* C1: once a stage has returned a failure, no later stage function is
\* invoked: ValidateData is not invoked after LoadConfig failed, and
\* ProcessData is not invoked after LoadConfig or ValidateData failed.
C1_ShortCircuit ==
    /\ (AfterValidateStep /\ ~r0.ok) =>
           (~WasInvoked("ValidateData") /\ ~WasInvoked("ProcessData"))
    /\ (AfterProcessStep /\ ~r1.ok) => ~WasInvoked("ProcessData")
    /\ (pc # "idle" /\ r0.ok /\ AfterValidateStep) => WasInvoked("ValidateData")

\* C1 witness: ValidateData ran and failed, ProcessData was skipped, and the
\* run went on to the dispatcher.
C1_Witness ==
    /\ pc = "dispatched"
    /\ r0.ok /\ ~r1.ok
    /\ trace = <<"LoadConfig", "ValidateData", "handle_pipeline_result">>

\* ---------------------------------------------------------------- C2

\* C2: when a stage fails, the terminal result is a failure holding exactly
\* the error of the first failing stage, kind and payload unchanged.
C2_FirstFailureUnchanged ==
    /\ (AfterValidateStep /\ ~r0.ok) => (~r1.ok /\ r1.error = r0.error)
    /\ (AfterProcessStep /\ ~r0.ok) =>
           (~r2.ok /\ r2.error = r0.error /\ r2.error \in
                {ConfigReadError(path), ConfigParseError("malformed", 1)})
    /\ (AfterProcessStep /\ r0.ok /\ ~r1.ok) =>
           (~r2.ok /\ r2.error = r1.error /\ r2.error =
                ValidationError("invalid_field", "contains disallowed value"))

\* C2 witness: a parse error raised by LoadConfig has passed both and_then
\* calls and is the terminal error.
C2_Witness ==
    /\ pc = "terminal"
    /\ r0 = Unexpected(ConfigParseError("malformed", 1))
    /\ r2 = Unexpected(ConfigParseError("malformed", 1))

\* ---------------------------------------------------------------- C3

\* C3: for a path that names no file, the pipeline ends in a failure that
\* holds ConfigReadError whose filename is the requested path.
C3_MissingSourceIsReadError ==
    (AfterProcessStep /\ ~fs[path].exists) =>
        (~r2.ok /\ r2.error.kind = "ConfigReadError" /\ r2.error.filename = path)

\* C3 witness: the run on b.txt, which does not exist, ended with
\* ConfigReadError{"b.txt"} while a.txt exists.
C3_Witness ==
    /\ pc = "terminal"
    /\ path = "b.txt"
    /\ ~fs["b.txt"].exists /\ fs["a.txt"].exists
    /\ r2 = Unexpected(ConfigReadError("b.txt"))

\* ---------------------------------------------------------------- C4

C5_SpecificArmRuns ==
    (pc = "dispatched" /\ ~r2.ok) =>
        /\ diag.arm = r2.error.kind
        /\ diag.arm \in ErrorKinds
        /\ diag.arm # "fallback"
        /\ (diag.arm = "ConfigReadError" => diag.fields = <<r2.error.filename>>)
        /\ (diag.arm = "ConfigParseError" =>
               diag.fields = <<r2.error.line_number, r2.error.line_content>>)
        /\ (diag.arm = "ValidationError" =>
               diag.fields = <<r2.error.field_name, r2.error.invalid_value>>)
        /\ (diag.arm = "ProcessingError" =>
               diag.fields = <<r2.error.task_name, r2.error.details>>)

\* C5 witness: a validation error was dispatched to the ValidationError arm,
\* which reported its two fields.
C5_Witness ==
    /\ pc = "dispatched"
    /\ r2 = Unexpected(ValidationError("invalid_field", "contains disallowed value"))
    /\ diag = [arm |-> "ValidationError",
               fields |-> <<"invalid_field", "contains disallowed value">>]

\* ---------------------------------------------------------------- C6

\* The error kinds stage s has raised so far.
KindsRaisedBy(s) == {k \in ErrorKinds : <<s, k>> \in raised}

\* C6 as claimed: every stage fails with one error kind only, so no stage
\* has raised two different kinds.
C6_OneKindPerStage ==
    \A s \in {"LoadConfig", "ValidateData", "ProcessData"} :
        Cardinality(KindsRaisedBy(s)) <= 1

\* C6 as amended: ValidateData fails with ValidationError only and ProcessData
\* with ProcessingError only; LoadConfig fails with one of two kinds,
\* ConfigReadError exactly when the file cannot be opened and ConfigParseError
\* otherwise; no stage raises a kind of another stage.
C6_KindsPerStage ==
    /\ KindsRaisedBy("LoadConfig") \subseteq {"ConfigReadError", "ConfigParseError"}
    /\ KindsRaisedBy("ValidateData") \subseteq {"ValidationError"}
    /\ KindsRaisedBy("ProcessData") \subseteq {"ProcessingError"}
    /\ (uOp = "LoadConfig" /\ ~uRes.ok) =>
           (uRes.error.kind = "ConfigReadError" <=> ~fs[uArg.path].exists)

\* C6 witness: LoadConfig has raised both of its kinds, and the other two
\* stages have each raised theirs.
C6_Witness ==
    /\ KindsRaisedBy("LoadConfig") = {"ConfigReadError", "ConfigParseError"}
    /\ KindsRaisedBy("ValidateData") = {"ValidationError"}
    /\ KindsRaisedBy("ProcessData") = {"ProcessingError"}

\* ---------------------------------------------------------------- C7

C8_ProcessThreshold ==
    uOp = "ProcessData" =>
        IF Len(uArg.text) < 10
        THEN uRes = Unexpected(ProcessingError("Data Processing",
                                               "Input data too short for task"))
        ELSE uRes = Expected(Result(Len(uArg.text)))

\* C8 witness: a text of exactly 10 characters was processed with code 10.
C8_Witness ==
    /\ uOp = "ProcessData"
    /\ Len(uArg.text) = 10
    /\ uRes = Expected(Result(10))

\* ---------------------------------------------------------------- C9

\* C9: for a file that can be opened, LoadConfig fails with
\* ConfigParseError{"malformed", 1} when the content is empty or contains
\* "malformed", wherever it occurs, and otherwise succeeds with a Config
\* holding the content unchanged.
C9_LoadParse ==
    (pc \in {"chain1", "chain2", "terminal", "dispatched"} /\ fs[path].exists) =>
        IF fs[path].content = << >> \/ HasSubstring(fs[path].content, MalformedSentinel)
        THEN r0 = Unexpected(ConfigParseError("malformed", 1))
        ELSE r0 = Expected(Config(fs[path].content))

\* C9 witness: a content with "malformed" at position 5 was refused with
\* position 1.
C9_Witness ==
    /\ pc = "chain1"
    /\ fs[path] = File(ShortContent \o MalformedSentinel)
    /\ r0 = Unexpected(ConfigParseError("malformed", 1))

\* ---------------------------------------------------------------- C10

C11_ValidateSentinel ==
    uOp = "ValidateData" =>
        IF HasSubstring(uArg.text, InvalidFieldSentinel)
        THEN uRes = Unexpected(ValidationError("invalid_field",
                                               "contains disallowed value"))
        ELSE /\ uRes.ok
             /\ uRes.value.type = "ValidatedData"
             /\ Len(uRes.value.processed_data) = 11 + Len(uArg.text)
             /\ SubSeq(uRes.value.processed_data, 1, 11)
                  = <<"V","a","l","i","d","a","t","e","d",":"," ">>
             /\ SubSeq(uRes.value.processed_data, 12, 11 + Len(uArg.text))
                  = uArg.text

\* C11 witness: a text with "invalid_field" after "short", not at its start,
\* was refused with the ValidationError.
C11_Witness ==
    /\ uOp = "ValidateData"
    /\ uArg.text = ShortContent \o InvalidFieldSentinel
    /\ uRes = Unexpected(ValidationError("invalid_field", "contains disallowed value"))

\* ---------------------------------------------------------------- C12

\* The stage functions invoked in the current run, in order.
StageCalls == SelectSeq(trace, LAMBDA f : f # "handle_pipeline_result")

\* The number of times the dispatcher was invoked in the current run.
DispatchCalls == Len(trace) - Len(StageCalls)

\* s is an initial part of t.
IsPrefix(s, t) == Len(s) <= Len(t) /\ SubSeq(t, 1, Len(s)) = s

\* C12: in every scenario run of main the invocations are a prefix of
\* LoadConfig, ValidateData, ProcessData (each at most once, in that order)
\* followed by exactly one call of the dispatcher, which comes last.
C12_FixedOrderOneDispatch ==
    /\ IsPrefix(StageCalls, <<"LoadConfig", "ValidateData", "ProcessData">>)
    /\ DispatchCalls <= 1
    /\ DispatchCalls = 1 => trace[Len(trace)] = "handle_pipeline_result"
    /\ pc \in {"chain1", "chain2", "terminal"} =>
           (DispatchCalls = 0 /\ StageCalls # << >>)
    /\ (scn \in 2..CleanupPhase /\ pc \in {"idle", "written"}) =>
           (DispatchCalls = 1 /\ StageCalls # << >>)

\* C12 witness: scenario 4 has ended: LoadConfig and ValidateData were
\* invoked, ProcessData was not, and the dispatcher was invoked once, last.
C12_Witness ==
    /\ scn = 5 /\ pc = "idle"
    /\ path = ScenarioFile(4)
    /\ trace = <<"LoadConfig", "ValidateData", "handle_pipeline_result">>

\* ---------------------------------------------------------------- C13

\* C13: whenever LoadConfig has returned, on its success path and on both of
\* its failure paths, no std::ifstream handle is held: none is open while
\* ValidateData, ProcessData or the dispatcher run, nor between runs.
C13_NoHandleHeld ==
    /\ handles = {}
    /\ \A p \in DOMAIN fs : p \notin handles

\* C13 witness: LoadConfig opened an existing file, returned a parse error,
\* and holds no handle while the chain goes on.
C13_Witness ==
    /\ pc = "chain1"
    /\ fs[path].exists
    /\ r0 = Unexpected(ConfigParseError("malformed", 1))
    /\ handles = {}

\* ---------------------------------------------------------------- C14

\* No assert has aborted the process, and every scenario that has ended was
\* reported by the dispatcher: the success arm for a value, the arm of the
\* error's kind for a failure.
C14_Recovered ==
    /\ exitStatus # "abort"
    /\ (scn \in 2..CleanupPhase /\ pc \in {"idle", "written"}) =>
           diag.arm = (IF r2.ok THEN "success" ELSE r2.error.kind)

C15_ExhaustiveAtBuildTime ==
    /\ taxonomy \subseteq SpecificArms
    /\ diag.arm # "fallback"
    /\ <<"handle_pipeline_result", "fallback">> \notin raised

\* What the code does instead: an error of an added alternative has been
\* dispatched, and the generic fallback handled it.
C15_FallbackTaken ==
    /\ uOp = "handle_pipeline_result"
    /\ ~uRes.ok
    /\ uRes.error.kind \in FutureKinds
    /\ diag = [arm |-> "fallback", fields |-> << >>]

\* ---------------------------------------------------------------- C16

\* C16 as stated: scenario 5 of main, run on a file whose content is
\* "short", ends in a failure of kind ProcessingError.
C16_Scenario5ProcessingError ==
    (/\ scn = LastScenario
     /\ pc = "terminal"
     /\ path = ScenarioFile(LastScenario)
     /\ fs[path] = File(ShortContent))
        => (~r2.ok /\ r2.error.kind = "ProcessingError")

\* What the code does instead: scenario 5 on "short" ends in success with
\* the code 16, the length of "Validated: short".
C16_Scenario5Succeeds ==
    /\ scn = LastScenario
    /\ pc = "terminal"
    /\ path = ScenarioFile(LastScenario)
    /\ fs[path] = File(ShortContent)
    /\ r2 = Expected(Result(Len(ValidatedPrefix \o ShortContent)))

\* ---------------------------------------------------------------- C17

TerminalOutcome == IF r2.ok THEN "success" ELSE r2.error.kind

====
